---- MODULE Spec2Model ----
(***************************************************************************)
(* The turn-based battle engine of src/main.py as a state machine.         *)
(*                                                                         *)
(* Objects are named by identifiers: a Character, an Ability and a         *)
(* StatusEffect are Python objects, and two lists that hold the same       *)
(* identifier hold the same object (one current_cooldown, one duration).   *)
(*                                                                         *)
(* The confrontation log keeps, of every turn record but the one appended  *)
(* last, only its turn_number; the record appended last is the dict        *)
(* turn_details itself (turn_log[-1] is turn_details in the code), kept in *)
(* full.  A key the code leaves out of a turn record ("status_effects",    *)
(* "events") is the empty sequence here: the code never stores an empty    *)
(* list under either key.                                                  *)
(***************************************************************************)
EXTENDS Integers, Sequences, FiniteSets, TLC

\* run_battle: max_turns = 100
max_turns == 100

\* Bounds of the model.
MaxHP == 3
MaxOver == 1
MaxAttack == 3
MaxPos == 1

Chars == {"A", "B", "X"}
TeamIds == {"Team_A", "Team_B"}
AbilityIds == {"q1", "q2"}
EffectIds == {"e1", "e2"}
None == "None"
\* The values uuid.uuid4().hex may return: it is not drawn from the seeded
\* generator, so each call is a free choice.
UUIDs == {"u1", "u2"}

VARIABLES
    \* Team; call is the call last made on a Team while the squads are set up
    \* (the method, the team and the argument of rearrange_formation)
    characters, formation, call,
    \* Character
    team_id, max_hp, current_hp, attack, defense, speed, position, alive,
    abilities, status_effects,
    \* Ability
    power, cooldown, current_cooldown, effect,
    \* StatusEffect; initial_duration is the duration it was constructed with
    \* (the code keeps only the running one)
    duration, initial_duration, effect_value, effect_type,
    \* history: applied_in[c][e] counts the passes of c's process_status_effects
    \* that applied effect e since e came into c's list
    applied_in,
    \* history: every Ability's current_cooldown when the turn began
    cooldown_at_start,
    \* history: the turn in which the Ability was last used, kept for the
    \* cooldown turns that follow it (0: not used, or longer ago)
    last_used,
    \* history: the Characters whose alive flag went from true to false since
    \* the turn began
    killed,
    \* GameEngine
    turn_log, event_log, battle_over, turn_count,
    \* run_battle: where it stands and its locals
    pc, turn_details, status_logs, status_queue, effect_idx, all_fighters,
    \* The same battle run a second time on equal squads with the same seed
    \* (when rerun is set): the seeded generator then returns the same draws,
    \* and the second run differs from the first in nothing but the values of
    \* uuid4. Of the second run the model keeps those: the event ids of its
    \* queued events, and the "events" list of its current turn record.
    rerun, rerun_event_ids, rerun_events

teamVars == <<characters, formation, call>>
charConfig == <<team_id, max_hp, speed, position, abilities>>
abilityConfig == <<power, cooldown, effect>>
effectConfig == <<initial_duration, effect_value, effect_type>>
config == <<teamVars, charConfig, abilityConfig, effectConfig>>
charState == <<current_hp, attack, defense, alive, status_effects>>
engineState == <<turn_log, event_log, battle_over, turn_count>>
locals == <<pc, turn_details, status_logs, status_queue, effect_idx, all_fighters>>
rerunVars == <<rerun, rerun_event_ids, rerun_events>>
vars == <<config, charState, current_cooldown, duration, engineState, locals, rerunVars,
          applied_in, cooldown_at_start, last_used, killed>>

Max(a, b) == IF a >= b THEN a ELSE b
Min(a, b) == IF a <= b THEN a ELSE b

\* Python's int(x * 0.5): the product truncated toward zero.
IntHalf(x) == IF x >= 0 THEN x \div 2 ELSE -((-x) \div 2)

----------------------------------------------------------------------------
\* StatusEffect, Ability, Character, Team

\* StatusEffect.is_expired
is_expired(dur, e) == dur[e] <= 0

\* is_available that never says no
is_available_always(cd, ab) == TRUE

\* Ability.is_available
is_available(cd, ab) == cd[ab] = 0

\* tick_cooldown without its guard
tick_cooldown_unguarded(cd, ab) == [cd EXCEPT ![ab] = cd[ab] - 1]

\* Ability.tick_cooldown, on the cooldown table cd
tick_cooldown(cd, ab) ==
    IF cd[ab] > 0 THEN [cd EXCEPT ![ab] = cd[ab] - 1] ELSE cd

\* use() that starts no cooldown
use_without_cooldown(cd, ab) == cd

\* Ability.use
use(cd, ab) == [cd EXCEPT ![ab] = cooldown[ab]]

\* Character.tick_abilities: one tick_cooldown per entry of the ability list
RECURSIVE tick_abilities(_, _)
tick_abilities(cd, abs) ==
    IF abs = <<>> THEN cd
    ELSE tick_abilities(tick_cooldown(cd, Head(abs)), Tail(abs))

\* Character.take_damage: the new <<current_hp, alive>> of the character
take_damage(hp, al, amount) ==
    IF hp - amount <= 0 THEN <<0, FALSE>> ELSE <<hp - amount, al>>

\* Character.heal: the new <<current_hp, alive>> of the character
heal(hp, al, mhp, amount) ==
    LET h == Min(hp + amount, mhp)
    IN  IF h > 0 THEN <<h, TRUE>> ELSE <<h, al>>

\* rearrange_formation without its length check: zip stops at the shorter list
rearrange_formation_unchecked(t, new_order) ==
    <<[c \in Chars |->
          IF \E i \in 1..Min(Len(new_order), Len(characters[t])) : characters[t][i] = c
          THEN new_order[CHOOSE i \in 1..Min(Len(new_order), Len(characters[t])) :
                             /\ characters[t][i] = c
                             /\ \A j \in (i + 1)..Min(Len(new_order), Len(characters[t])) :
                                    characters[t][j] # c]
          ELSE position[c]],
      [formation EXCEPT ![t] = new_order]>>

\* Team.rearrange_formation replacing the formation and assigning no position
rearrange_formation_only(t, new_order) ==
    IF Len(new_order) # Len(characters[t]) THEN <<position, formation>>
    ELSE <<position, [formation EXCEPT ![t] = new_order]>>

\* Team.rearrange_formation: the new <<position, formation>>. The loop over
\* zip(characters, new_order) assigns in list order, so the last entry of a
\* character decides its position.
rearrange_formation(t, new_order) ==
    IF Len(new_order) # Len(characters[t]) THEN <<position, formation>>
    ELSE rearrange_formation_unchecked(t, new_order)

\* Team.get_alive_characters, under the alive flags al
get_alive_characters(t, al) == SelectSeq(characters[t], LAMBDA c : al[c])

\* Team.is_defeated, under the alive flags al
is_defeated(t, al) ==
    \A i \in 1..Len(characters[t]) : ~al[characters[t][i]]

\* _get_all_alive_characters listing every member, living or not
all_characters(al) == characters["Team_A"] \o characters["Team_B"]

\* GameEngine._get_all_alive_characters
all_alive_characters(al) ==
    get_alive_characters("Team_A", al) \o get_alive_characters("Team_B", al)

\* _choose_target drawing from every member of the opposing squad
all_enemies(f, al) ==
    characters[IF team_id[f] = "Team_A" THEN "Team_B" ELSE "Team_A"]

\* GameEngine._choose_target: the living enemies random.choice draws from
living_enemies(f, al) ==
    get_alive_characters(IF team_id[f] = "Team_A" THEN "Team_B" ELSE "Team_A", al)

\* the sort key without the position
KeyLessBySpeedOnly(a, b) == speed[a] > speed[b]

\* the sort key of run_battle: (-speed, position), a before b
KeyLess(a, b) ==
    \/ speed[a] > speed[b]
    \/ speed[a] = speed[b] /\ position[a] < position[b]

\* list.sort is stable: c goes behind every element whose key is not greater
InsertSorted(s, c) ==
    LET k == Cardinality({i \in 1..Len(s) : ~KeyLess(c, s[i])})
    IN  SubSeq(s, 1, k) \o <<c>> \o SubSeq(s, k + 1, Len(s))

RECURSIVE SortFighters(_)
SortFighters(s) ==
    IF s = <<>> THEN <<>>
    ELSE InsertSorted(SortFighters(SubSeq(s, 1, Len(s) - 1)), s[Len(s)])

----------------------------------------------------------------------------
\* Event and its subclasses; the text written to the log

\* CriticalHitEvent.__init__ / MissEvent.__init__ / AbilityUsedEvent.__init__,
\* with the event_id Event.__init__ draws
CriticalHitEvent(id, attacker, target, extra_damage) ==
    [kind |-> "CriticalHit", event_id |-> id, attacker |-> attacker,
     target |-> target, extra_damage |-> extra_damage, ability |-> None]

\* MissEvent.__init__ building an event that carries extra damage
MissEvent_with_damage(id, attacker, target) ==
    [kind |-> "CriticalHit", event_id |-> id, attacker |-> attacker,
     target |-> target, extra_damage |-> 1, ability |-> None]

MissEvent(id, attacker, target) ==
    [kind |-> "Miss", event_id |-> id, attacker |-> attacker,
     target |-> target, extra_damage |-> 0, ability |-> None]

AbilityUsedEvent(id, user, ability, target) ==
    [kind |-> "AbilityUsed", event_id |-> id, attacker |-> user,
     target |-> target, extra_damage |-> 0, ability |-> ability]

\* Event.description, the f-string of each subclass: its fixed text and the
\* values it interpolates
Description(ev) ==
    [text |-> CASE ev.kind = "CriticalHit" -> "Critical hit by {} on {} for extra {}"
                [] ev.kind = "Miss" -> "{}'s attack missed {}"
                [] ev.kind = "AbilityUsed" -> "{} used ability {} on {}",
     by |-> ev.attacker, ability |-> ev.ability, on |-> ev.target,
     extra |-> IF ev.kind = "CriticalHit" THEN ev.extra_damage ELSE 0]

\* str(event): Event defines no __str__, so it is Event.__repr__,
\* f"<Event {self.event_id}: {self.description}>", for the event id given
EventStr(ev, id) == [event_id |-> id, description |-> Description(ev)]

\* the line process_status_effects logs for effect e on character c
EffectLine(c, e) ==
    [name |-> c, effect |-> e, effect_value |-> effect_value[e]]

\* an entry of turn_details["actions"]
ActionDetail(actor, action, name, target, damage, extra) ==
    [actor |-> actor, action |-> <<action, name>>, target |-> target,
     damage |-> damage, extra |-> extra]

\* the turn record run_battle starts a turn with
NewTurnDetails(n) ==
    [turn_number |-> n, actions |-> <<>>, status_effects |-> <<>>, events |-> <<>>]

\* what the log keeps of a turn record that is no longer the last one
TurnEntry(n) == [turn_number |-> n]

\* _log_battle_result naming the defeated squad as the winner
BattleResultSwapped(al) ==
    IF is_defeated("Team_A", al) /\ is_defeated("Team_B", al)
        THEN "Draw: Both teams defeated."
    ELSE IF is_defeated("Team_A", al) THEN "Team Team_A wins!"
    ELSE IF is_defeated("Team_B", al) THEN "Team Team_B wins!"
    ELSE "Turn limit reached. Possibly a draw."

\* GameEngine._log_battle_result: the result text under the alive flags al
BattleResult(al) ==
    IF is_defeated("Team_A", al) /\ is_defeated("Team_B", al)
        THEN "Draw: Both teams defeated."
    ELSE IF is_defeated("Team_A", al) THEN "Team Team_B wins!"
    ELSE IF is_defeated("Team_B", al) THEN "Team Team_A wins!"
    ELSE "Turn limit reached. Possibly a draw."

\* _log_battle_result writing one more turn record instead
ResultEntryAsTurn(al, n) == [turn_number |-> n]

\* GameEngine._log_battle_result: the terminal record
ResultEntry(al, n) == [battle_result |-> BattleResult(al), final_turn |-> n]

----------------------------------------------------------------------------
\* The squads the engine is constructed with

\* no call made on a Team yet
NoCall == [op |-> None, team |-> None, new_order |-> <<>>]

NoAbilities == [c \in Chars |-> <<>>]
NoEffect == [ab \in AbilityIds |-> None]

\* A against X, every value the plainest: the squads below vary it.
Base ==
    [chars_a |-> <<"A">>, chars_b |-> <<"X">>,
     hp |-> [c \in Chars |-> MaxHP],
     atk |-> [c \in Chars |-> 2], def |-> [c \in Chars |-> 1],
     spd |-> [c \in Chars |-> 1], pos |-> [c \in Chars |-> 0],
     abl |-> NoAbilities,
     pow |-> [ab \in AbilityIds |-> 0], cdn |-> [ab \in AbilityIds |-> 0],
     eff |-> NoEffect,
     dur |-> [e \in EffectIds |-> 0], val |-> [e \in EffectIds |-> 0],
     typ |-> [e \in EffectIds |-> "poison"],
     rerun |-> FALSE]

\* No abilities: basic attacks, misses and critical hits; X is the faster.
Duel == { [Base EXCEPT !.spd["X"] = 2] }

\* The battle of one blow, run twice with the same seed.
Twice == { [Base EXCEPT !.hp = [c \in Chars |-> 1], !.rerun = TRUE] }

\* A and B, of one point of health each, against X; B stands in front of A
\* (position 0 against 1).
Squad ==
    { [Base EXCEPT !.chars_a = <<"A", "B">>,
                   !.hp = [c \in Chars |-> IF c = "X" THEN MaxHP ELSE 1],
                   !.pos["A"] = 1] }

\* A squad with no member.
NoEnemy == { [Base EXCEPT !.chars_b = <<>>] }

\* A and X hold the same Ability object, which carries a poison (as the
\* abilities of main_example are shared between the characters).
Poisoners ==
    { [Base EXCEPT !.abl = [c \in Chars |-> <<"q1">>],
                   !.cdn["q1"] = 2, !.eff["q1"] = "e1",
                   !.dur["e1"] = 2, !.val["e1"] = 1] }

\* A holds a poison ability and a heal ability (the heal effect goes to the
\* enemy it is used on).
Healer ==
    { [Base EXCEPT !.hp = [c \in Chars |-> IF c = "X" THEN MaxHP + 1 ELSE 1],
                   !.abl["A"] = <<"q1", "q2">>,
                   !.pow["q2"] = 0 - 1,
                   !.eff = [ab \in AbilityIds |-> IF ab = "q1" THEN "e1" ELSE "e2"],
                   !.dur = [e \in EffectIds |-> IF e = "e1" THEN 2 ELSE 1],
                   !.val = [e \in EffectIds |-> 1],
                   !.typ["e2"] = "heal"] }

\* A holds one ability whose effect is of any kind, of magnitude 1 or -1.
Curses ==
    { [Base EXCEPT !.hp = [c \in Chars |-> IF c = "X" THEN MaxHP - 1 ELSE 1],
                   !.abl["A"] = <<"q1">>, !.cdn["q1"] = 1, !.eff["q1"] = "e1",
                   !.dur["e1"] = 2, !.val["e1"] = tv[2], !.typ["e1"] = tv[1]] :
      tv \in {<<"poison", 0 - 1>>, <<"heal", 0 - 1>>, <<"buff", 1>>, <<"debuff", 1>>} }

Scenarios == Duel \cup Twice \cup Squad \cup NoEnemy \cup Poisoners \cup Healer \cup Curses

Init ==
    \E sc \in Scenarios :
        /\ characters = [t \in TeamIds |-> IF t = "Team_A" THEN sc.chars_a ELSE sc.chars_b]
        /\ formation = [t \in TeamIds |->
               LET cs == IF t = "Team_A" THEN sc.chars_a ELSE sc.chars_b
               IN  [i \in 1..Len(cs) |-> sc.pos[cs[i]]]]
        /\ team_id = [c \in Chars |->
               IF \E i \in 1..Len(sc.chars_b) : sc.chars_b[i] = c
               THEN "Team_B" ELSE "Team_A"]
        /\ max_hp = sc.hp
        /\ current_hp = sc.hp
        /\ attack = sc.atk
        /\ defense = sc.def
        /\ speed = sc.spd
        /\ position = sc.pos
        /\ alive = [c \in Chars |-> TRUE]
        /\ abilities = sc.abl
        /\ status_effects = [c \in Chars |-> <<>>]
        /\ power = sc.pow
        /\ cooldown = sc.cdn
        /\ current_cooldown = [ab \in AbilityIds |-> 0]
        /\ effect = sc.eff
        /\ duration = sc.dur
        /\ initial_duration = sc.dur
        /\ applied_in = [c \in Chars |-> [e \in EffectIds |-> 0]]
        /\ cooldown_at_start = [ab \in AbilityIds |-> 0]
        /\ last_used = [ab \in AbilityIds |-> 0]
        /\ killed = {}
        /\ effect_value = sc.val
        /\ effect_type = sc.typ
        /\ turn_log = <<>>
        /\ event_log = <<>>
        /\ battle_over = FALSE
        /\ turn_count = 0
        /\ pc = "loop"
        /\ turn_details = NewTurnDetails(0)
        /\ status_logs = <<>>
        /\ status_queue = <<>>
        /\ effect_idx = 1
        /\ all_fighters = <<>>
        /\ rerun = sc.rerun
        /\ rerun_event_ids = <<>>
        /\ rerun_events = <<>>
        /\ call = NoCall

----------------------------------------------------------------------------
\* Setting up the squads: Team() twice, Character() for every name, then
\* add_character and rearrange_formation in any order, as main_example does
\* before it constructs the engine.

\* the positions a Character is constructed with, and the lists
\* rearrange_formation is called with: of any length up to one more than
\* the larger squad, permutations or not
Positions == 0..MaxPos
Orders == UNION {[1..n -> Positions] : n \in 0..Cardinality(Chars)}

\* what the set-up steps leave alone
battle == <<team_id, max_hp, speed, abilities, abilityConfig, effectConfig, charState,
            current_cooldown, duration, engineState, locals, rerunVars, applied_in,
            cooldown_at_start, last_used, killed>>

\* Team.__init__ for both teams and Character.__init__ for every name, with
\* any position (A and B are of Team_A, X of Team_B)
SetupInit ==
    /\ characters = [t \in TeamIds |-> <<>>]
    /\ formation = [t \in TeamIds |-> <<>>]
    /\ call = NoCall
    /\ team_id = [c \in Chars |-> IF c = "X" THEN "Team_B" ELSE "Team_A"]
    /\ position \in [Chars -> Positions]
    /\ max_hp = Base.hp
    /\ current_hp = Base.hp
    /\ attack = Base.atk
    /\ defense = Base.def
    /\ speed = Base.spd
    /\ alive = [c \in Chars |-> TRUE]
    /\ abilities = NoAbilities
    /\ status_effects = [c \in Chars |-> <<>>]
    /\ power = Base.pow
    /\ cooldown = Base.cdn
    /\ current_cooldown = [ab \in AbilityIds |-> 0]
    /\ effect = NoEffect
    /\ duration = Base.dur
    /\ initial_duration = Base.dur
    /\ applied_in = [c \in Chars |-> [e \in EffectIds |-> 0]]
    /\ cooldown_at_start = [ab \in AbilityIds |-> 0]
    /\ last_used = [ab \in AbilityIds |-> 0]
    /\ killed = {}
    /\ effect_value = Base.val
    /\ effect_type = Base.typ
    /\ turn_log = <<>>
    /\ event_log = <<>>
    /\ battle_over = FALSE
    /\ turn_count = 0
    /\ pc = "setup"
    /\ turn_details = NewTurnDetails(0)
    /\ status_logs = <<>>
    /\ status_queue = <<>>
    /\ effect_idx = 1
    /\ all_fighters = <<>>
    /\ rerun = FALSE
    /\ rerun_event_ids = <<>>
    /\ rerun_events = <<>>

\* Team.add_character, for a Character that is in no squad yet, on the team
\* it names (as main_example adds each Character once, to its own team)
AddCharacter ==
    /\ pc = "setup"
    /\ \E c \in Chars :
         /\ \A t \in TeamIds : \A i \in 1..Len(characters[t]) : characters[t][i] # c
         /\ LET t == team_id[c] IN
            /\ characters' = [characters EXCEPT ![t] = Append(@, c)]
            /\ formation' = [formation EXCEPT ![t] = Append(@, position[c])]
            /\ call' = [op |-> "add_character", team |-> t, new_order |-> <<>>]
    /\ UNCHANGED <<position, battle>>

\* Team.rearrange_formation, with any list
RearrangeFormation ==
    /\ pc = "setup"
    /\ \E t \in TeamIds, new_order \in Orders :
         LET r == rearrange_formation(t, new_order) IN
         /\ position' = r[1]
         /\ formation' = r[2]
         /\ call' = [op |-> "rearrange_formation", team |-> t, new_order |-> new_order]
    /\ UNCHANGED <<characters, battle>>

SetupNext ==
    \/ AddCharacter
    \/ RearrangeFormation

SetupSpec == SetupInit /\ [][SetupNext]_vars

----------------------------------------------------------------------------
\* run_battle

\* the while condition with <= for <
LoopGuardOffByOne == ~battle_over /\ turn_count <= max_turns

\* the condition of run_battle's while loop
LoopGuard == ~battle_over /\ turn_count < max_turns

\* StatusEffect.apply_effect of effect e on character c:
\* the character's new <<current_hp, alive, attack, defense>>
apply_effect(e, c) ==
    CASE effect_type[e] = "poison" ->
            LET r == take_damage(current_hp[c], alive[c], effect_value[e])
            IN  <<r[1], r[2], attack[c], defense[c]>>
      [] effect_type[e] = "heal" ->
            LET r == heal(current_hp[c], alive[c], max_hp[c], effect_value[e])
            IN  <<r[1], r[2], attack[c], defense[c]>>
      [] effect_type[e] = "buff" ->
            <<current_hp[c], alive[c], attack[c] + effect_value[e], defense[c]>>
      [] effect_type[e] = "debuff" ->
            <<current_hp[c], alive[c], attack[c], Max(0, defense[c] - effect_value[e])>>
      [] OTHER -> <<current_hp[c], alive[c], attack[c], defense[c]>>

\* The values the model follows: a run that leaves them is not followed further.
InRange(hp, atk, c) ==
    /\ hp >= 0 - MaxOver /\ hp <= max_hp[c] + MaxOver
    /\ atk <= MaxAttack

\* The second run where the first creates an Event: its own uuid4 value.
RerunEnqueue ==
    /\ IF rerun
       THEN \E id \in UUIDs : rerun_event_ids' = Append(rerun_event_ids, id)
       ELSE UNCHANGED rerun_event_ids
    /\ UNCHANGED <<rerun, rerun_events>>

\* The second run where the first flushes event: str(event) with its own id.
RerunFlush(event) ==
    /\ IF rerun
       THEN /\ rerun_event_ids' = Tail(rerun_event_ids)
            /\ rerun_events' = Append(rerun_events,
                   EventStr(event, Head(rerun_event_ids)))
       ELSE UNCHANGED <<rerun_event_ids, rerun_events>>
    /\ UNCHANGED rerun

\* the turn record of the second run
RerunTurnDetails == [turn_details EXCEPT !.events = rerun_events]

\* One pass of the while loop begins: the turn counter, the new turn record,
\* and the list _process_status_effects iterates over.
BeginTurn ==
    /\ pc = "loop"
    /\ LoopGuard
    /\ turn_count' = turn_count + 1
    /\ turn_details' = NewTurnDetails(turn_count + 1)
    /\ status_logs' = <<>>
    /\ status_queue' = all_alive_characters(alive)
    /\ effect_idx' = 1
    /\ pc' = "status"
    /\ cooldown_at_start' = current_cooldown
    /\ killed' = {}
    /\ last_used' = [ab \in AbilityIds |->
           IF turn_count + 1 - last_used[ab] > cooldown[ab] THEN 0 ELSE last_used[ab]]
    /\ rerun_events' = <<>>
    /\ UNCHANGED <<applied_in, config, charState, current_cooldown, duration, turn_log,
                   event_log, battle_over, all_fighters, rerun, rerun_event_ids>>

\* Character.process_status_effects, one iteration of its for loop:
\* apply the effect, log it, tick it.
ApplyEffect ==
    /\ pc = "status"
    /\ status_queue # <<>>
    /\ LET c == Head(status_queue) IN
       /\ effect_idx <= Len(status_effects[c])
       /\ LET e == status_effects[c][effect_idx]
              r == apply_effect(e, c)
          IN  /\ InRange(r[1], r[3], c)
              /\ duration[e] - 1 >= 0 - MaxOver
              /\ current_hp' = [current_hp EXCEPT ![c] = r[1]]
              /\ alive' = [alive EXCEPT ![c] = r[2]]
              /\ attack' = [attack EXCEPT ![c] = r[3]]
              /\ defense' = [defense EXCEPT ![c] = r[4]]
              /\ status_logs' = Append(status_logs, EffectLine(c, e))
              /\ duration' = [duration EXCEPT ![e] = duration[e] - 1]
              /\ applied_in' = IF \E k \in 1..(effect_idx - 1) : status_effects[c][k] = e
                     THEN applied_in
                     ELSE [applied_in EXCEPT ![c][e] = @ + 1]
    /\ effect_idx' = effect_idx + 1
    /\ killed' = killed \cup {c \in Chars : alive[c] /\ ~alive'[c]}
    /\ UNCHANGED <<last_used, cooldown_at_start, config, status_effects,
                   current_cooldown, engineState, pc, turn_details, status_queue,
                   all_fighters, rerunVars>>

\* Character.process_status_effects after its for loop: the expired effects
\* leave the list; _process_status_effects goes on to the next character.
DropExpired ==
    /\ pc = "status"
    /\ status_queue # <<>>
    /\ LET c == Head(status_queue) IN
       /\ effect_idx > Len(status_effects[c])
       /\ status_effects' = [status_effects EXCEPT ![c] =
              SelectSeq(@, LAMBDA e : ~is_expired(duration, e))]
       /\ applied_in' = [applied_in EXCEPT ![c] =
              [e \in EffectIds |-> IF is_expired(duration, e) THEN 0 ELSE @[e]]]
    /\ status_queue' = Tail(status_queue)
    /\ effect_idx' = 1
    /\ UNCHANGED <<killed, last_used, cooldown_at_start, config, current_hp, attack, defense,
                   alive, current_cooldown, duration, engineState, pc, turn_details,
                   status_logs, all_fighters, rerunVars>>

\* run_battle after the status phase: the status lines go into the turn
\* record, the fighters are listed and sorted; with no fighter left the loop
\* is left at once (break) and _log_battle_result writes the terminal record.
StartActions ==
    /\ pc = "status"
    /\ status_queue = <<>>
    /\ turn_details' = [turn_details EXCEPT !.status_effects = status_logs]
    /\ LET fighters == all_alive_characters(alive) IN
       IF fighters = <<>>
       THEN /\ battle_over' = TRUE
            /\ turn_log' = Append(turn_log, ResultEntry(alive, turn_count))
            /\ pc' = "done"
            /\ all_fighters' = <<>>
       ELSE /\ all_fighters' = SortFighters(fighters)
            /\ pc' = "act"
            /\ UNCHANGED <<battle_over, turn_log>>
    /\ UNCHANGED <<killed, last_used, cooldown_at_start, applied_in, config, charState,
                   current_cooldown, duration, event_log, turn_count, status_logs,
                   status_queue, effect_idx, rerunVars>>

\* The for loop over all_fighters is left (its list is exhausted, or break):
\* the turn record is appended and _process_events starts.
LeaveFor(evlog) ==
    /\ all_fighters' = <<>>
    /\ turn_log' = Append(turn_log, TurnEntry(turn_count))
    /\ pc' = IF evlog = <<>> THEN "loop" ELSE "flush"

\* run_battle after _perform_action: the defeat check, then the next fighter.
AfterAction(al, evlog) ==
    LET brk == is_defeated("Team_A", al) \/ is_defeated("Team_B", al) IN
    /\ battle_over' = (battle_over \/ brk)
    /\ IF brk \/ Tail(all_fighters) = <<>>
       THEN LeaveFor(evlog)
       ELSE /\ all_fighters' = Tail(all_fighters)
            /\ UNCHANGED <<turn_log, pc>>

\* the fighter whose turn it is, its cooldowns after tick_abilities, and the
\* abilities _perform_action finds available
Fighter == Head(all_fighters)
Ticked == tick_abilities(current_cooldown, abilities[Fighter])
Available == SelectSeq(abilities[Fighter], LAMBDA ab : is_available(Ticked, ab))
Enemies == living_enemies(Fighter, alive)

\* a fighter that died earlier in this turn is passed over (continue)
SkipDead ==
    /\ pc = "act"
    /\ all_fighters # <<>>
    /\ ~alive[Fighter]
    /\ IF Tail(all_fighters) = <<>>
       THEN LeaveFor(event_log)
       ELSE /\ all_fighters' = Tail(all_fighters)
            /\ UNCHANGED <<turn_log, pc>>
    /\ UNCHANGED <<killed, last_used, cooldown_at_start, applied_in, config, charState,
                   current_cooldown, duration, event_log, battle_over, turn_count,
                   turn_details, status_logs, status_queue, effect_idx, rerunVars>>

\* _perform_action, ability branch with a target
UseAbility ==
    /\ pc = "act"
    /\ all_fighters # <<>>
    /\ alive[Fighter]
    /\ \E i \in 1..Len(Available), j \in 1..Len(Enemies), id \in UUIDs :
         LET ability == Available[i]
             target == Enemies[j]
             damage == Max(1, attack[Fighter] + power[ability] - defense[target])
             r == take_damage(current_hp[target], alive[target], damage)
         IN  /\ current_cooldown' = use(Ticked, ability)
             /\ last_used' = [last_used EXCEPT ![ability] = turn_count]
             /\ event_log' = Append(event_log,
                    AbilityUsedEvent(id, Fighter, ability, target))
             /\ current_hp' = [current_hp EXCEPT ![target] = r[1]]
             /\ alive' = [alive EXCEPT ![target] = r[2]]
             /\ turn_details' = [turn_details EXCEPT !.actions = Append(@,
                    ActionDetail(Fighter, "use ability", ability, target, damage,
                                 <<"ability event logged">>))]
             /\ AfterAction(alive', event_log')
    /\ RerunEnqueue
    /\ killed' = killed \cup {c \in Chars : alive[c] /\ ~alive'[c]}
    /\ UNCHANGED <<cooldown_at_start, applied_in, config, attack, defense,
                   status_effects, duration, turn_count, status_logs, status_queue,
                   effect_idx>>

\* _perform_action, either branch with no living enemy
Idle ==
    /\ pc = "act"
    /\ all_fighters # <<>>
    /\ alive[Fighter]
    /\ Enemies = <<>>
    /\ current_cooldown' = Ticked
    /\ turn_details' = [turn_details EXCEPT !.actions = Append(@,
           ActionDetail(Fighter, "idle", "", None, 0, <<>>))]
    /\ AfterAction(alive, event_log)
    /\ UNCHANGED <<killed, last_used, cooldown_at_start, applied_in, config, charState,
                   duration, event_log, turn_count, status_logs, status_queue,
                   effect_idx, rerunVars>>

\* _perform_action, basic attack that misses
AttackMissed ==
    /\ pc = "act"
    /\ all_fighters # <<>>
    /\ alive[Fighter]
    /\ \E j \in 1..Len(Enemies), id \in UUIDs :
         LET target == Enemies[j] IN
         /\ event_log' = Append(event_log, MissEvent(id, Fighter, target))
         /\ turn_details' = [turn_details EXCEPT !.actions = Append(@,
                ActionDetail(Fighter, "attack (missed)", "", target, 0, <<>>))]
         /\ AfterAction(alive, event_log')
    /\ current_cooldown' = Ticked
    /\ RerunEnqueue
    /\ UNCHANGED <<killed, last_used, cooldown_at_start, applied_in, config, charState,
                   duration, turn_count, status_logs, status_queue, effect_idx>>

\* _perform_action, basic attack that hits, with or without a critical hit
Attack ==
    /\ pc = "act"
    /\ all_fighters # <<>>
    /\ alive[Fighter]
    /\ \E j \in 1..Len(Enemies), critical \in BOOLEAN, id \in UUIDs :
         LET target == Enemies[j]
             extra_damage == IF critical THEN IntHalf(attack[Fighter]) ELSE 0
             base_damage == Max(1, attack[Fighter] - defense[target])
             total_damage == base_damage + extra_damage
             r == take_damage(current_hp[target], alive[target], total_damage)
         IN  /\ event_log' = IF critical
                    THEN Append(event_log,
                             CriticalHitEvent(id, Fighter, target, extra_damage))
                    ELSE event_log
             /\ current_hp' = [current_hp EXCEPT ![target] = r[1]]
             /\ alive' = [alive EXCEPT ![target] = r[2]]
             /\ turn_details' = [turn_details EXCEPT !.actions = Append(@,
                    ActionDetail(Fighter, "attack", "", target, total_damage, <<>>))]
             /\ AfterAction(alive', event_log')
             /\ IF critical THEN RerunEnqueue ELSE UNCHANGED rerunVars
    /\ current_cooldown' = Ticked
    /\ killed' = killed \cup {c \in Chars : alive[c] /\ ~alive'[c]}
    /\ UNCHANGED <<last_used, cooldown_at_start, applied_in, config, attack, defense,
                   status_effects, duration, turn_count, status_logs, status_queue,
                   effect_idx>>

\* AbilityUsedEvent.process attaching nothing
process_without_grant(ev) == status_effects

\* AbilityUsedEvent.process (Event.process and MissEvent.process do nothing,
\* CriticalHitEvent.process touches no list): the status-effect lists after
\* event ev is processed. The target gets the ability's own StatusEffect
\* object.
process_grant(ev) ==
    IF ev.kind = "AbilityUsed" /\ effect[ev.ability] # None
    THEN [status_effects EXCEPT ![ev.target] = Append(@, effect[ev.ability])]
    ELSE status_effects

\* event_log.pop() for pop(0): the newest event is taken out
pop_last(q) == <<q[Len(q)], SubSeq(q, 1, Len(q) - 1)>>

\* event_log.pop(0): the event taken out and the list that is left
pop_first(q) == <<Head(q), Tail(q)>>

\* _process_events, one pass of its while loop: the oldest event is taken
\* out, processed, and str(event) goes into the last turn record.
ProcessEvent ==
    /\ pc = "flush"
    /\ event_log # <<>>
    /\ LET event == pop_first(event_log)[1]
           target == event.target
           r == take_damage(current_hp[target], alive[target], event.extra_damage)
       IN  /\ event_log' = pop_first(event_log)[2]
           /\ IF event.kind = "CriticalHit"
              THEN /\ current_hp' = [current_hp EXCEPT ![target] = r[1]]
                   /\ alive' = [alive EXCEPT ![target] = r[2]]
              ELSE UNCHANGED <<current_hp, alive>>
           /\ status_effects' = process_grant(event)
           /\ turn_details' = [turn_details EXCEPT !.events =
                  Append(@, EventStr(event, event.event_id))]
           /\ pc' = IF Tail(event_log) = <<>> THEN "loop" ELSE "flush"
           /\ RerunFlush(event)
    /\ killed' = killed \cup {c \in Chars : alive[c] /\ ~alive'[c]}
    /\ UNCHANGED <<last_used, cooldown_at_start, applied_in, config, attack, defense,
                   current_cooldown, duration, turn_log, battle_over, turn_count,
                   status_logs, status_queue, effect_idx, all_fighters>>

\* the while loop is left; _log_battle_result appends the terminal record
LogBattleResult ==
    /\ pc = "loop"
    /\ ~LoopGuard
    /\ turn_log' = Append(turn_log, ResultEntry(alive, turn_count))
    /\ pc' = "done"
    /\ UNCHANGED <<killed, last_used, cooldown_at_start, applied_in, config, charState,
                   current_cooldown, duration, event_log, battle_over, turn_count,
                   turn_details, status_logs, status_queue, effect_idx, all_fighters,
                   rerunVars>>

Next ==
    \/ BeginTurn
    \/ ApplyEffect
    \/ DropExpired
    \/ StartActions
    \/ SkipDead
    \/ UseAbility
    \/ Idle
    \/ AttackMissed
    \/ Attack
    \/ ProcessEvent
    \/ LogBattleResult

Spec == Init /\ [][Next]_vars

\* run_battle is one sequential loop that nothing suspends: a step that can
\* be taken is taken.
FairSpec == Spec /\ WF_vars(Next)

----------------------------------------------------------------------------
\* What the log and the squads show

Last(s) == s[Len(s)]
IsTurnRecord(r) == "turn_number" \in DOMAIN r
IsTerminalRecord(r) == "battle_result" \in DOMAIN r
TurnRecords == {i \in 1..Len(turn_log) : IsTurnRecord(turn_log[i])}
Members(t) == {characters[t][i] : i \in 1..Len(characters[t])}
NoLiving(t) == \A c \in Members(t) : ~alive[c]
Actions == turn_details.actions

\* the step of a basic attack that rolls a critical hit: it queues the
\* CriticalHit event
CriticalStep ==
    /\ Len(event_log') = Len(event_log) + 1
    /\ Last(event_log').kind = "CriticalHit"

\* C1: two runs on equal squads with the same seed write the same turn
\* record, the strings of its events list included.
Determinism == rerun => RerunTurnDetails = turn_details

\* C2: a basic attack that rolls a critical hit takes only the base damage
\* max(1, attack - defense) from the target's health; the extra damage waits
\* for the flush.
DeferredCritical ==
    [][CriticalStep =>
        LET ev == Last(event_log')
            base == Max(1, attack[ev.attacker] - defense[ev.target])
        IN  current_hp'[ev.target] = Max(0, current_hp[ev.target] - base)]_vars

\* C3: the terminal record says draw exactly when no squad has a living
\* member, names the squad with a living member exactly when only the other
\* has none, and says turn limit exactly when both have one, which happens
\* only with final_turn = 100.
TerminationCorrect ==
    pc = "done" =>
        LET r == Last(turn_log) IN
        /\ IsTerminalRecord(r)
        /\ r.battle_result = "Draw: Both teams defeated."
              <=> NoLiving("Team_A") /\ NoLiving("Team_B")
        /\ r.battle_result = "Team Team_A wins!"
              <=> ~NoLiving("Team_A") /\ NoLiving("Team_B")
        /\ r.battle_result = "Team Team_B wins!"
              <=> NoLiving("Team_A") /\ ~NoLiving("Team_B")
        /\ r.battle_result = "Turn limit reached. Possibly a draw."
              <=> ~NoLiving("Team_A") /\ ~NoLiving("Team_B")
        /\ r.battle_result = "Turn limit reached. Possibly a draw."
              => r.final_turn = 100

\* the run ended at the turn limit with both squads standing
TurnLimitReached ==
    /\ pc = "done"
    /\ Last(turn_log).battle_result = "Turn limit reached. Possibly a draw."
    /\ ~NoLiving("Team_A") /\ ~NoLiving("Team_B")

\* C4: every Combatant's health is within 0..max_hp, whatever the kind and
\* magnitude of the effects and the power of the abilities.
HealthBounds ==
    \A c \in Chars : current_hp[c] >= 0 /\ current_hp[c] <= max_hp[c]

\* C5: every Ability's current cooldown is within 0..cooldown.
CooldownBounds ==
    \A ab \in AbilityIds :
        current_cooldown[ab] >= 0 /\ current_cooldown[ab] <= cooldown[ab]

\* an ability of cooldown 2 was used and has ticked once since
CooldownRunning ==
    \E ab \in AbilityIds : cooldown[ab] = 2 /\ current_cooldown[ab] = 1

\* C6: in a turn's action list the faster actor comes first, and of two
\* equally fast actors the one of the lower position.
TurnOrdering ==
    \A i, j \in 1..Len(Actions) :
        i < j =>
            LET a == Actions[i].actor
                b == Actions[j].actor
            IN  /\ ~(speed[b] > speed[a])
                /\ ~(speed[b] = speed[a] /\ position[b] < position[a])

\* three fighters acted, and the sort moved B (position 0) before X and A
\* (position 1) behind both
SortedTurn ==
    /\ Len(Actions) = 3
    /\ Actions[1].actor = "B" /\ Actions[2].actor = "X" /\ Actions[3].actor = "A"

\* C7: the log never holds more than 100 turn records, and turn_count never
\* exceeds 100.
TurnCap == turn_count <= 100 /\ Cardinality(TurnRecords) <= 100

\* the hundredth turn record was appended
HundredTurns == turn_count = 100 /\ Cardinality(TurnRecords) = 100

\* the status phase stands before an effect whose application would leave the
\* values the model follows
OutOfRange ==
    /\ pc = "status"
    /\ status_queue # <<>>
    /\ effect_idx <= Len(status_effects[Head(status_queue)])
    /\ LET c == Head(status_queue)
           e == status_effects[c][effect_idx]
           r == apply_effect(e, c)
       IN  ~(InRange(r[1], r[3], c) /\ duration[e] - 1 >= 0 - MaxOver)

\* turn records, then one terminal record, which is the last entry
LogShape ==
    /\ Len(turn_log) >= 1
    /\ IsTerminalRecord(Last(turn_log))
    /\ \A i \in 1..(Len(turn_log) - 1) : IsTurnRecord(turn_log[i])

\* C8: every run of run_battle ends (as far as the model follows it), and
\* then the log is turn records followed by exactly one terminal record.
RunCompletes ==
    /\ <>(pc = "done" \/ OutOfRange)
    /\ [](pc = "done" => LogShape)

\* a run ended after some turns were logged
RunEnded == pc = "done" /\ LogShape /\ Len(turn_log) >= 3

\* C9: when the run has ended the log holds exactly final_turn turn records,
\* numbered 1..final_turn in order.
EveryTurnLogged ==
    pc = "done" =>
        LET n == Last(turn_log).final_turn IN
        /\ Len(turn_log) = n + 1
        /\ \A i \in 1..n : IsTurnRecord(turn_log[i]) /\ turn_log[i].turn_number = i

\* the effects in c's list
Held(c) == {status_effects[c][k] : k \in 1..Len(status_effects[c])}

\* the step that ends a pass of process_status_effects
PassEnds == pc = "status" /\ status_queue # <<>> /\ status_queue' = Tail(status_queue)

\* C10: an effect of initial duration d >= 1 is applied in exactly d passes of
\* its holder and is gone after the d-th: a pass removes it exactly when it
\* is the d-th pass that applied it.
EffectLifeCycle ==
    [][PassEnds =>
        LET c == Head(status_queue) IN
        \A e \in Held(c) :
            initial_duration[e] >= 1 =>
                ((\A k \in 1..Len(status_effects'[c]) : status_effects'[c][k] # e)
                    <=> applied_in[c][e] = initial_duration[e])]_vars

\* the step is a call of rearrange_formation
RearrangeStep == call'.op = "rearrange_formation"

\* C11: rearrange_formation with a list of another length than the squad
\* leaves the formation and every position as they are; with a list of the
\* squad's length it sets member i's position to new_order[i] and the
\* formation to new_order (and touches no other squad).
RearrangeContract ==
    [][RearrangeStep =>
        LET t == call'.team
            o == call'.new_order
        IN  IF Len(o) # Len(characters[t])
            THEN position' = position /\ formation' = formation
            ELSE /\ formation' = [formation EXCEPT ![t] = o]
                 /\ \A i \in 1..Len(o) : position'[characters[t][i]] = o[i]
                 /\ \A c \in Chars :
                        (\A i \in 1..Len(o) : characters[t][i] # c)
                            => position'[c] = position[c]]_vars

\* a squad of two was just called with a list of three, and its formation
\* still is what add_character made it
MismatchedOrder ==
    /\ call.op = "rearrange_formation"
    /\ Len(characters[call.team]) = 2
    /\ Len(call.new_order) = 3
    /\ formation[call.team] = <<0, 1>>
    /\ call.new_order = <<1, 1, 0>>

\* the squad opposing character c
Opposing(c) == IF team_id[c] = "Team_A" THEN "Team_B" ELSE "Team_A"

\* the step resolves the action of a fighter
ActionStep ==
    /\ pc = "act"
    /\ Len(turn_details'.actions) = Len(Actions) + 1

\* the step resolves the action of a fighter whose opposing squad has no
\* living member
IdleStep == ActionStep /\ NoLiving(Opposing(Fighter))

\* C12: a fighter that acts while the opposing squad has no living member
\* gets the record (idle, no target, damage 0); no health changes, no
\* cooldown is started and no event is queued.
IdleAction ==
    [][IdleStep =>
        LET rec == Last(turn_details'.actions) IN
        /\ rec.actor = Fighter
        /\ rec.action = <<"idle", "">>
        /\ rec.target = None
        /\ rec.damage = 0
        /\ current_hp' = current_hp
        /\ alive' = alive
        /\ \A ab \in AbilityIds : current_cooldown'[ab] <= current_cooldown[ab]
        /\ event_log' = event_log]_vars

\* a fighter idled in a later turn, its enemies having died in a flush
IdledAmongTheDead ==
    /\ turn_count >= 2
    /\ Actions # <<>>
    /\ Last(Actions).action = <<"idle", "">>
    /\ Members(Opposing(Last(Actions).actor)) # {}
    /\ NoLiving(Opposing(Last(Actions).actor))

\* C13: a Combatant whose alive flag is false never has it true again.
NoRevival == [][\A c \in Chars : ~alive[c] => ~alive'[c]]_vars

\* the step is one apply_effect of the status phase (it logs one line)
ApplyStep == pc = "status" /\ Len(status_logs') = Len(status_logs) + 1

\* C14: whenever the status phase applies an effect, the effect's duration
\* is at least 1 at that moment.
ExpiredNeverApplied ==
    [][ApplyStep => duration[Last(status_logs').effect] >= 1]_vars

\* the step begins a turn after the first: the flush of the turn before is
\* over
NextTurnStep == turn_count >= 1 /\ turn_count' = turn_count + 1

\* C15: once a turn's flush has left a squad with no living member, no
\* further turn is executed: a turn after the first begins only with a
\* living member in both squads.
CheckAfterFlush ==
    [][NextTurnStep => ~NoLiving("Team_A") /\ ~NoLiving("Team_B")]_vars

\* turn n is over, its flush included
TurnOver(n) == pc = "loop" /\ turn_count = n /\ turn_details.turn_number = n

\* the record of turn_details["events"] is that of a critical hit by a on b
IsCriticalOf(str, a, b) ==
    /\ str.description.text = "Critical hit by {} on {} for extra {}"
    /\ str.description.by = a
    /\ str.description.on = b

\* C16: a basic attack that rolls a critical hit, on a target that nothing
\* else touches in the turn, has taken exactly the damage of its action
\* record (base + extra) from the target's health when the flush is over.
\* Stated of the first turn, which every Combatant begins with max_hp.
CriticalOnce ==
    TurnOver(1) =>
        \A i \in 1..Len(Actions) :
            LET rec == Actions[i] IN
            (/\ rec.action = <<"attack", "">>
             /\ \A j \in 1..Len(Actions) : j # i => Actions[j].target # rec.target
             /\ \E k \in 1..Len(turn_details.events) :
                    IsCriticalOf(turn_details.events[k], rec.actor, rec.target))
                => current_hp[rec.target] = Max(0, max_hp[rec.target] - rec.damage)

\* the abilities some action record of the turn says were used
UsedInTurn == {Actions[i].action[2] : i \in {k \in 1..Len(Actions) :
                                            Actions[k].action[1] = "use ability"}}

\* C17: over a turn every Ability's current cooldown goes down by exactly 1,
\* floored at 0, whoever holds it and whoever acts (an Ability used in the
\* turn starts its cooldown anew and is left out).
CooldownTicking ==
    \A n \in 1..max_turns :
        TurnOver(n) =>
            \A ab \in AbilityIds \ UsedInTurn :
                current_cooldown[ab] = Max(0, cooldown_at_start[ab] - 1)

\* the step resolves an action that uses an ability
UseStep == ActionStep /\ Last(turn_details'.actions).action[1] = "use ability"

\* C18: an Ability of cooldown c >= 1 used in turn t is not used in the
\* turns t+1 .. t+c: when it is used, its last use is not among the c turns
\* before this one.
CooldownLength ==
    [][UseStep =>
        LET ab == Last(turn_details'.actions).action[2] IN
        cooldown[ab] >= 1 =>
            \/ last_used[ab] = 0
            \/ last_used[ab] = turn_count]_vars

\* the step is one pass of the flush: an event leaves the queue
FlushStep == pc = "flush" /\ Len(event_log') = Len(event_log) - 1

\* what processing event ev changes, and nothing else: a critical hit takes
\* its extra damage from its target, a used ability attaches its effect to
\* its target, a miss does nothing
AppliedOnce(ev) ==
    /\ IF ev.kind = "CriticalHit"
       THEN LET r == take_damage(current_hp[ev.target], alive[ev.target],
                                 ev.extra_damage)
            IN  /\ current_hp' = [current_hp EXCEPT ![ev.target] = r[1]]
                /\ alive' = [alive EXCEPT ![ev.target] = r[2]]
       ELSE current_hp' = current_hp /\ alive' = alive
    /\ IF ev.kind = "AbilityUsed" /\ effect[ev.ability] # None
       THEN status_effects' = [status_effects EXCEPT ![ev.target] =
                Append(@, effect[ev.ability])]
       ELSE status_effects' = status_effects
    /\ attack' = attack /\ defense' = defense

\* C19: the flush takes the events out in the order they were queued, applies
\* each once, and appends its string to the record of the same turn, which
\* is the last entry of the log; outside the action phase and the flush the
\* queue is empty.
EventFlush ==
    /\ [](pc \in {"loop", "status", "done"} => event_log = <<>>)
    /\ [](pc = "flush" =>
            /\ turn_details.turn_number = turn_count
            /\ Last(turn_log) = TurnEntry(turn_count))
    /\ [][FlushStep =>
            LET ev == Head(event_log) IN
            /\ event_log' = Tail(event_log)
            /\ AppliedOnce(ev)
            /\ turn_details'.events =
                   Append(turn_details.events, EventStr(ev, ev.event_id))
            /\ turn_details'.turn_number = turn_count]_vars

\* a flush is over that took out a used ability and then a critical hit,
\* as they were queued
FlushedInOrder ==
    /\ pc = "loop"
    /\ Len(turn_details.events) = 2
    /\ turn_details.events[1].description.text = "{} used ability {} on {}"
    /\ turn_details.events[2].description.text = "Critical hit by {} on {} for extra {}"
    /\ Actions[1].action[1] = "use ability"
    /\ event_log = <<>>

\* C20: the action that uses an ability leaves every status-effect list as
\* it is; the flush of the same turn attaches the ability's effect to the
\* target; and the status phase applies effects only before the first action
\* of its turn, so the effect is first applied in a later turn.
DeferredGrant ==
    /\ [][pc = "act" => status_effects' = status_effects]_vars
    /\ [][FlushStep =>
            LET ev == Head(event_log) IN
            (ev.kind = "AbilityUsed" /\ effect[ev.ability] # None)
                => /\ status_effects'[ev.target] =
                          Append(status_effects[ev.target], effect[ev.ability])
                   /\ Last(turn_log) = TurnEntry(turn_count)
                   /\ \E i \in 1..Len(Actions) :
                          /\ Actions[i].action = <<"use ability", ev.ability>>
                          /\ Actions[i].actor = ev.attacker
                          /\ Actions[i].target = ev.target]_vars
    /\ [][ApplyStep =>
            /\ Actions = <<>>
            /\ turn_details.events = <<>>
            /\ event_log = <<>>]_vars

\* the poison A's ability put on X in the flush of turn 1 has its first
\* application in the status phase of turn 2
GrantApplied ==
    /\ turn_count = 2
    /\ pc = "status"
    /\ \E k \in 1..Len(status_logs) : status_logs[k].name = "X"
    /\ \E e \in Held("X") : applied_in["X"][e] = 1 /\ effect_type[e] = "poison"

\* C21: using an ability sets its current cooldown to its configured
\* cooldown, queues exactly one AbilityUsed event, and takes
\* max(1, attack + power - defense) from the target's health at once (not
\* below 0); the same number, at least 1, is the damage of the action record.
AbilityAction ==
    [][UseStep =>
        LET rec == Last(turn_details'.actions)
            ab == rec.action[2]
            d == Max(1, attack[rec.actor] + power[ab] - defense[rec.target])
        IN  /\ rec.actor = Fighter
            /\ current_cooldown'[ab] = cooldown[ab]
            /\ Len(event_log') = Len(event_log) + 1
            /\ SubSeq(event_log', 1, Len(event_log)) = event_log
            /\ Last(event_log').kind = "AbilityUsed"
            /\ Last(event_log').attacker = rec.actor
            /\ Last(event_log').ability = ab
            /\ Last(event_log').target = rec.target
            /\ current_hp'[rec.target] = Max(0, current_hp[rec.target] - d)
            /\ \A c \in Chars \ {rec.target} : current_hp'[c] = current_hp[c]
            /\ rec.damage = d
            /\ d >= 1]_vars

\* an ability of negative power was just used: it took 1 from X's health
\* and queued its event
HealAbilityUsed ==
    /\ pc = "act"
    /\ Actions # <<>>
    /\ Last(Actions).action[1] = "use ability"
    /\ power[Last(Actions).action[2]] < 0
    /\ Last(Actions).damage = 1
    /\ event_log # <<>>
    /\ Last(event_log).kind = "AbilityUsed"

\* C22: an ability is used only with current cooldown 0 at the moment of
\* use, which is after the fighter's tick_abilities of that turn.
OnlyAvailableUsed ==
    [][UseStep => Ticked[Last(turn_details'.actions).action[2]] = 0]_vars

\* an ability that was on cooldown when the turn began was used in the turn,
\* after the ticks had brought it to 0
UsedWhenReady ==
    \E ab \in UsedInTurn : cooldown_at_start[ab] >= 1 /\ cooldown[ab] >= 1

\* C23: the actor of every action record is alive when its action is
\* resolved, was not killed earlier in the turn and has no other record in
\* the turn; the target of an action that is not idle is a living member of
\* the opposing squad when it is chosen.
DeadDoNotAct ==
    [][ActionStep =>
        LET rec == Last(turn_details'.actions) IN
        /\ alive[rec.actor]
        /\ rec.actor \notin killed
        /\ \A i \in 1..Len(Actions) : Actions[i].actor # rec.actor
        /\ rec.action[1] # "idle" =>
               /\ rec.target \in Members(Opposing(rec.actor))
               /\ alive[rec.target]]_vars

\* the step resolves a basic attack that misses
MissStep == ActionStep /\ Last(turn_details'.actions).action[1] = "attack (missed)"

\* the step is the pass of the flush that takes out a Miss event
MissFlushStep == FlushStep /\ Head(event_log).kind = "Miss"

\* C24: a missed basic attack leaves every Character's health, alive flag,
\* attack, defense and status-effect list, every effect's duration and every
\* ability cooldown (as tick_abilities left it before the action) unchanged;
\* its record has damage 0, exactly one Miss event of the actor on the target
\* is queued behind the events already waiting, and the flush of a Miss event
\* changes none of these either.
MissedAttack ==
    /\ [][MissStep =>
            LET rec == Last(turn_details'.actions) IN
            /\ rec.actor = Fighter
            /\ rec.damage = 0
            /\ charState' = charState
            /\ duration' = duration
            /\ current_cooldown' = Ticked
            /\ Len(event_log') = Len(event_log) + 1
            /\ SubSeq(event_log', 1, Len(event_log)) = event_log
            /\ Last(event_log').kind = "Miss"
            /\ Last(event_log').attacker = Fighter
            /\ Last(event_log').target = rec.target]_vars
    /\ [][MissFlushStep =>
            /\ charState' = charState
            /\ duration' = duration
            /\ current_cooldown' = current_cooldown]_vars

\* a miss was recorded with damage 0 and its Miss event has been flushed
\* into the record of the turn
MissFlushed ==
    /\ pc = "loop"
    /\ event_log = <<>>
    /\ \E i \in 1..Len(Actions) :
          /\ Actions[i].action[1] = "attack (missed)"
          /\ Actions[i].damage = 0
          /\ \E k \in 1..Len(turn_details.events) :
                LET d == turn_details.events[k].description IN
                /\ d.text = "{}'s attack missed {}"
                /\ d.by = Actions[i].actor
                /\ d.on = Actions[i].target

\* C25: in every state of a run, every Character's alive flag is set exactly
\* when its current health is above 0.
AliveConsistent == \A c \in Chars : alive[c] = (current_hp[c] > 0)

\* how often position p stands in the list s
Occurrences(s, p) == Cardinality({i \in 1..Len(s) : s[i] = p})

\* the lists s and t hold the same positions, each as often
IsPermutation(s, t) ==
    /\ Len(s) = Len(t)
    /\ \A p \in Positions : Occurrences(s, p) = Occurrences(t, p)

\* C26: after a rearrange_formation call with a list of the squad's length,
\* the squad's formation is a permutation of the formation it had before the
\* call.
RearrangePermutes ==
    [][RearrangeStep /\ Len(call'.new_order) = Len(characters[call'.team]) =>
        IsPermutation(formation'[call'.team], formation[call'.team])]_vars

\* the formation of squad t lists the positions of its members, in order
Mirrors(t) ==
    /\ Len(formation[t]) = Len(characters[t])
    /\ \A i \in 1..Len(characters[t]) : formation[t][i] = position[characters[t][i]]

AppendStep == Len(turn_log') = Len(turn_log) + 1 /\ IsTurnRecord(Last(turn_log'))

\* C28: every turn record has a non-empty actions list when it is appended
\* to the log (it is the record of the turn in progress), and for as long as
\* it is the record of the current turn; the records of earlier turns are
\* not touched again.
ActionsNonEmpty ==
    /\ [][AppendStep =>
            /\ Last(turn_log').turn_number = turn_details'.turn_number
            /\ turn_details'.actions # <<>>]_vars
    /\ [](/\ turn_log # <<>>
          /\ IsTurnRecord(Last(turn_log))
          /\ Last(turn_log).turn_number = turn_details.turn_number
          => Actions # <<>>)
    /\ [][turn_details'.turn_number = turn_details.turn_number =>
            Len(turn_details'.actions) >= Len(Actions)]_vars

\* the record of the turn is in the log with one action only, its other
\* fighter having been killed before it could act
OneActionLogged ==
    /\ pc \in {"loop", "flush"}
    /\ turn_log # <<>>
    /\ Last(turn_log) = TurnEntry(turn_count)
    /\ turn_details.turn_number = turn_count
    /\ Len(Actions) = 1
    /\ killed # {}
====
